---------------------------- MODULE Spec2Model ----------------------------
(***************************************************************************)
(* Model of the retrieval-augmented context pipeline of the "chat with     *)
(* videos" backend: the chunker, the three Chroma collections, ingestion,  *)
(* context assembly (BackEnd/App/Services/rag_service.py), the generation  *)
(* boundary (llm_service.py) and the two routes that drive them            *)
(* (API/Routes/videos.py, API/Routes/chat.py).                             *)
(*                                                                         *)
(* Texts are sequences of atoms.  A transcript or a query is a sequence of *)
(* single characters; a frame description is the sequence of the parts     *)
(* that _create_frame_description joins.                                   *)
(***************************************************************************)
EXTENDS Integers, Sequences, FiniteSets, TLC

VARIABLES
    frames_collection,       \* Chroma collection "video_frames":      id -> record
    transcripts_collection,  \* Chroma collection "video_transcripts": id -> record
    chat_collection,         \* Chroma collection "chat_history":      id -> record
    call,                    \* the arguments drawn for the calls under check
    ret,                     \* what the last call of the service returned
    videos_db,               \* videos.py: video id -> VideoInfo
    frames_dir,              \* the frames process_video extracted, by video id
    tasks,                   \* where each upload's background task stands
    chat_messages_db,        \* chat.py: video id -> list of ChatMessage
    turns,                   \* the chat_with_video requests, in order of arrival
    running,                 \* the coroutine that holds the event loop, or "idle"
    next_uuid,               \* how many uuid4() values have been drawn, plus one
    llm                      \* which clients LLMService.__init__ built

appVars == <<videos_db, frames_dir, tasks, chat_messages_db, turns, running, next_uuid, llm>>

vars == <<frames_collection, transcripts_collection, chat_collection, call, ret,
          videos_db, frames_dir, tasks, chat_messages_db, turns, running, next_uuid, llm>>

None == "None"

(***************************************************************************)
(* Bounds of the model.                                                    *)
(***************************************************************************)
MaxLen == 5          \* longest transcript, in characters, given to the chunker
MaxWindow == 3       \* largest chunk_size given to the chunker

(***************************************************************************)
(* Characters.  str.split() with no argument splits on runs of whitespace. *)
(***************************************************************************)
Whitespace == {" ", "\n"}
Letters == {"a", "b"}
Chars == Letters \cup Whitespace

Min(a, b) == IF a <= b THEN a ELSE b

RECURSIVE StringsUpTo(_)
StringsUpTo(n) ==
    IF n = 0 THEN {<<>>}
    ELSE LET shorter == StringsUpTo(n - 1)
         IN  shorter \cup {Append(s, c) : s \in {t \in shorter : Len(t) = n - 1}, c \in Chars}

(***************************************************************************)
(* words = transcript.split()                                              *)
(* SplitFrom scans the characters left to right; cur is the word being     *)
(* read, acc the words already closed.                                     *)
(***************************************************************************)
RECURSIVE SplitFrom(_, _, _, _)
SplitFrom(s, i, cur, acc) ==
    IF i > Len(s)
    THEN IF cur = <<>> THEN acc ELSE Append(acc, cur)
    ELSE IF s[i] \in Whitespace
         THEN SplitFrom(s, i + 1, <<>>, IF cur = <<>> THEN acc ELSE Append(acc, cur))
         ELSE SplitFrom(s, i + 1, Append(cur, s[i]), acc)

Split(s) == SplitFrom(s, 1, <<>>, <<>>)

(***************************************************************************)
(* sep.join(parts); Join is " ".join(words)                                *)
(***************************************************************************)
RECURSIVE JoinWith(_, _)
JoinWith(parts, sep) ==
    IF parts = <<>> THEN <<>>
    ELSE IF Len(parts) = 1 THEN parts[1]
    ELSE parts[1] \o <<sep>> \o JoinWith(Tail(parts), sep)

Join(words) == JoinWith(words, " ")

(***************************************************************************)
(* words[i:i + chunk_size], with i counted from 0 as in the source: a      *)
(* Python slice stops at the end of the list.                              *)
(***************************************************************************)
Slice(words, i, j) == SubSeq(words, i + 1, Min(j, Len(words)))

(***************************************************************************)
(* for i in range(0, len(words), chunk_size):                              *)
(*     chunks.append(" ".join(words[i:i + chunk_size]))                    *)
(***************************************************************************)
RECURSIVE ChunkLoopDropsTail(_, _, _, _)
ChunkLoopDropsTail(words, i, chunk_size, chunks) ==
    IF i + chunk_size > Len(words) THEN chunks
    ELSE ChunkLoopDropsTail(words, i + chunk_size, chunk_size,
                            Append(chunks, Join(Slice(words, i, i + chunk_size))))

RECURSIVE ChunkLoop(_, _, _, _)
ChunkLoop(words, i, chunk_size, chunks) ==
    IF i >= Len(words) THEN chunks
    ELSE ChunkLoop(words, i + chunk_size, chunk_size,
                   Append(chunks, Join(Slice(words, i, i + chunk_size))))

_chunk_transcript(transcript, chunk_size) ==
    ChunkLoop(Split(transcript), 0, chunk_size, <<>>)

(***************************************************************************)
(* The embedding model.  SentenceTransformer.encode is a deterministic     *)
(* function of the text alone; here it sends a text to one of six vectors  *)
(* of length 5 in the plane, picked by a position-weighted sum of the      *)
(* text's atoms.  The vectors point both with and against each other, as   *)
(* embeddings do, so a cosine can be negative.                             *)
(***************************************************************************)
Vectors == << <<5, 0>>, <<4, 3>>, <<0, 5>>, <<-3, 4>>, <<-5, 0>>, <<3, -4>> >>

Dot(a, b) == a[1] * b[1] + a[2] * b[2]

\* 1.0, in the unit distances and scores are carried in: every vector of
\* Vectors has squared length One, so the cosine of a and b is Dot(a, b) / One
One == Dot(Vectors[1], Vectors[1])

AtomCode(x) ==
    CASE x = "a" -> 1
      [] x = "b" -> 2
      [] x = "cat" -> 1
      [] x = "dog" -> 2
      [] x = "Scene:" -> 2
      [] x = "Timestamp:" -> 1
      [] x = "hello" -> 3
      [] x = "answer" -> 5
      [] OTHER -> 0

RECURSIVE Hash(_, _)
Hash(text, i) ==
    IF i > Len(text) THEN 0 ELSE i * AtomCode(text[i]) + Hash(text, i + 1)

encode(text) == Vectors[(Hash(text, 1) % Len(Vectors)) + 1]

(***************************************************************************)
(* The collections are created with "hnsw:space": "cosine": the distance   *)
(* of a hit is 1 - cos(query, record).                                     *)
(***************************************************************************)
CosineDistance(a, b) == One - Dot(a, b)

(***************************************************************************)
(* Collection.add(embeddings, documents, metadatas, ids) with one id.      *)
(* Chroma's add does not replace: a record whose id is already in the      *)
(* collection is left as it is and the call returns normally (replacing is *)
(* what Collection.upsert does, which the service never calls).            *)
(***************************************************************************)
CollectionAdd(coll, id, record) ==
    IF id \in DOMAIN coll THEN coll ELSE coll @@ (id :> record)

(***************************************************************************)
(* Collection.query(query_embeddings=[q], n_results=n,                     *)
(*                  where={"video_id": video_id})                          *)
(* The records the where clause lets through, the n nearest of them (all   *)
(* of them when there are fewer), nearest first.  The order of records at  *)
(* the same distance is the index's choice, so the operator is the set of  *)
(* results the index may give, each the lists Chroma returns for the one   *)
(* query embedding.                                                        *)
(***************************************************************************)
MatchingIgnoresWhere(coll, video_id) == DOMAIN coll

Matching(coll, video_id) ==
    {id \in DOMAIN coll : coll[id].metadata.video_id = video_id}

CollectionQuery(coll, q, n_results, video_id) ==
    LET m == Matching(coll, video_id)
        k == Min(n_results, Cardinality(m))
        d(id) == CosineDistance(q, coll[id].embedding)
        nearest == {ids \in [1..k -> m] :
                       /\ \A i, j \in 1..k : i < j => ids[i] # ids[j] /\ d(ids[i]) <= d(ids[j])
                       /\ \A x \in m : (\A i \in 1..k : ids[i] # x) =>
                                           \A i \in 1..k : d(ids[i]) <= d(x)}
    IN  {[ids |-> ids,
          documents |-> [i \in 1..k |-> coll[ids[i]].document],
          metadatas |-> [i \in 1..k |-> coll[ids[i]].metadata],
          distances |-> [i \in 1..k |-> d(ids[i])]] : ids \in nearest}

(***************************************************************************)
(* VideoFrame and VideoInfo (Models/video.py), with the fields the         *)
(* pipeline reads.                                                         *)
(***************************************************************************)
VideoFrame(id, video_id, timestamp, scene_description) ==
    [id |-> id, video_id |-> video_id, timestamp |-> timestamp,
     objects |-> <<>>, actions |-> <<>>, scene_description |-> scene_description]

\* f"{frame.timestamp:.2f}"
FormatTimestamp(t) ==
    CASE t = 0 -> "0.00" [] t = 1 -> "1.00" [] t = 2 -> "2.00" [] OTHER -> "3.00"

_create_frame_description(frame) ==
    LET scene == IF frame.scene_description # None
                 THEN << <<"Scene:", frame.scene_description>> >> ELSE <<>>
        objects == IF frame.objects # <<>>
                   THEN << <<"Objects:">> \o JoinWith([i \in DOMAIN frame.objects |-> <<frame.objects[i]>>], ",") >>
                   ELSE <<>>
        actions == IF frame.actions # <<>>
                   THEN << <<"Actions:">> \o JoinWith([i \in DOMAIN frame.actions |-> <<frame.actions[i]>>], ",") >>
                   ELSE <<>>
        timestamp == << <<"Timestamp:", FormatTimestamp(frame.timestamp), "seconds">> >>
    IN  JoinWith(scene \o objects \o actions \o timestamp, "|")

(***************************************************************************)
(* Ingestion.  fault numbers the unit (the chunks of the transcript first, *)
(* then the frames, from 1) whose encode or add raises; 0 when none does.  *)
(* Neither loop catches anything, so the exception leaves the loop and the *)
(* call.                                                                   *)
(***************************************************************************)
DEFAULT_CHUNK_SIZE == 2

\* if video_info.transcript: ...    (None and "" are false)
HasTranscript(video_info) ==
    video_info.transcript # None /\ video_info.transcript # <<>>

TranscriptChunks(video_info) ==
    IF HasTranscript(video_info)
    THEN _chunk_transcript(video_info.transcript, DEFAULT_CHUNK_SIZE)
    ELSE <<>>

\* f"{video_info.id}_transcript_{i}"
ChunkId(video_id, i) == <<video_id, "_transcript_", i>>

TranscriptRecord(video_info, i, chunk) ==
    [embedding |-> encode(chunk),
     document |-> chunk,
     metadata |-> [video_id |-> video_info.id, chunk_index |-> i, type |-> "transcript"]]

\* for i, chunk in enumerate(transcript_chunks): ...   (i counts from 0; unit i + 1)
RECURSIVE AddTranscriptLoop(_, _, _, _, _)
AddTranscriptLoop(coll, video_info, chunks, i, fault) ==
    IF i >= Len(chunks) \/ i + 1 = fault THEN coll
    ELSE AddTranscriptLoop(
             CollectionAdd(coll, ChunkId(video_info.id, i),
                           TranscriptRecord(video_info, i, chunks[i + 1])),
             video_info, chunks, i + 1, fault)

_add_transcript(coll, video_info, fault) ==
    IF ~HasTranscript(video_info) THEN coll
    ELSE AddTranscriptLoop(coll, video_info, TranscriptChunks(video_info), 0, fault)

FrameRecord(frame) ==
    LET frame_text == _create_frame_description(frame)
    IN  [embedding |-> encode(frame_text),
         document |-> frame_text,
         metadata |-> [video_id |-> frame.video_id, frame_id |-> frame.id,
                       timestamp |-> frame.timestamp, type |-> "frame"]]

\* for frame in frames: ...   (k is the position of the next frame, from 1)
RECURSIVE AddFramesLoop(_, _, _, _)
AddFramesLoop(coll, frames, k, fault) ==
    IF k > Len(frames) \/ k = fault THEN coll
    ELSE AddFramesLoop(CollectionAdd(coll, frames[k].id, FrameRecord(frames[k])),
                       frames, k + 1, fault)

_add_frames(coll, frames, fault) == AddFramesLoop(coll, frames, 1, fault)

Units(video_info, frames) == Len(TranscriptChunks(video_info)) + Len(frames)

\* add_video_content, as an action: the transcript, then the frames
AddVideoContent(video_info, frames, fault) ==
    LET nchunks == Len(TranscriptChunks(video_info))
    IN  /\ transcripts_collection' = _add_transcript(transcripts_collection, video_info, fault)
        /\ frames_collection' =
               IF fault \in 1..nchunks THEN frames_collection
               ELSE _add_frames(frames_collection, frames,
                                IF fault = 0 THEN 0 ELSE fault - nchunks)
        /\ ret' = [op |-> "add_video_content",
                   raised |-> fault \in 1..Units(video_info, frames)]

(***************************************************************************)
(* Retrieval.                                                              *)
(***************************************************************************)
\* search_relevant_content: one query embedding, both collections, same k and filter
search_relevant_content(query, video_id, max_results) ==
    LET query_embedding == encode(query)
    IN  {[raised |-> FALSE, frames |-> f, transcript |-> t] :
            f \in CollectionQuery(frames_collection, query_embedding, max_results, video_id),
            t \in CollectionQuery(transcripts_collection, query_embedding, max_results, video_id)}

\* the entries built from the frame hits, in the order of the hits
FrameEntries(frame_results) ==
    [i \in 1..Len(frame_results.ids) |->
        [frame_id |-> frame_results.ids[i],
         timestamp |-> frame_results.metadatas[i].timestamp,
         description |-> frame_results.documents[i],
         relevance_score |-> One - frame_results.distances[i]]]

InsertFirst(sorted, x) == <<x>> \o sorted

\* relevant_frames.sort(key=relevance_score, reverse=True): stable
RECURSIVE InsertByRelevance(_, _)
InsertByRelevance(sorted, x) ==
    IF sorted = <<>> THEN <<x>>
    ELSE IF Head(sorted).relevance_score >= x.relevance_score
         THEN <<Head(sorted)>> \o InsertByRelevance(Tail(sorted), x)
         ELSE <<x>> \o sorted

RECURSIVE SortByRelevance(_, _)
SortByRelevance(entries, sorted) ==
    IF entries = <<>> THEN sorted
    ELSE SortByRelevance(Tail(entries), InsertByRelevance(sorted, Head(entries)))

\* relevant_frames[:max_frames]
TakeAll(entries, max_frames) == entries

TakeTop(entries, max_frames) == SubSeq(entries, 1, Min(max_frames, Len(entries)))

\* a call that raised returns nothing
Raised == [raised |-> TRUE]

ContextOfRaisesOnNoHit(search_results, max_frames) ==
    IF search_results.frames.ids = <<>> /\ search_results.transcript.documents = <<>>
    THEN Raised
    ELSE [raised |-> FALSE,
          frames |-> TakeTop(SortByRelevance(FrameEntries(search_results.frames), <<>>),
                             max_frames),
          transcript |-> Join(search_results.transcript.documents)]

\* get_context_for_chat, from the search results on
ContextOf(search_results, max_frames) ==
    [raised |-> FALSE,
     frames |-> TakeTop(SortByRelevance(FrameEntries(search_results.frames), <<>>), max_frames),
     transcript |-> Join(search_results.transcript.documents)]

\* get_context_for_chat awaits search_relevant_content with no try around it:
\* what the search raises, it raises
get_context_for_chat_masks(search, max_frames) ==
    IF search.raised THEN [raised |-> FALSE, frames |-> <<>>, transcript |-> <<>>]
    ELSE ContextOf(search, max_frames)

get_context_for_chat(search, max_frames) ==
    IF search.raised THEN Raised ELSE ContextOf(search, max_frames)

(***************************************************************************)
(* The chunker on its own: Init draws a transcript and a window size, the  *)
(* action applies _chunk_transcript to them.                               *)
(***************************************************************************)
EmptyIndex == <<>>

\* the module-level state of the two routes when the process starts
AppAtStartup ==
    /\ videos_db = <<>>
    /\ frames_dir = <<>>
    /\ tasks = <<>>
    /\ chat_messages_db = <<>>
    /\ turns = <<>>
    /\ running = "idle"
    /\ next_uuid = 1

\* no API key set: LLMService.__init__ builds no client
NoClients == [openai |-> FALSE, anthropic |-> FALSE, gpt4 |-> TRUE]

InitChunk ==
    /\ AppAtStartup /\ llm = NoClients
    /\ frames_collection = EmptyIndex
    /\ transcripts_collection = EmptyIndex
    /\ chat_collection = EmptyIndex
    /\ call \in [transcript : StringsUpTo(MaxLen), chunk_size : 1..MaxWindow]
    /\ ret = [op |-> "none"]

ChunkTranscript ==
    /\ ret.op = "none"
    /\ ret' = [op |-> "_chunk_transcript",
               chunks |-> _chunk_transcript(call.transcript, call.chunk_size)]
    /\ UNCHANGED <<frames_collection, transcripts_collection, chat_collection, call>>
    /\ UNCHANGED appVars

NextChunk == ChunkTranscript

SpecChunk == InitChunk /\ [][NextChunk]_vars

(***************************************************************************)
(* C5.  Chunk determinism.  For every transcript T with n words and every  *)
(* window W >= 1, _chunk_transcript(T, W) has ceil(n / W) chunks, chunk i  *)
(* is the words [i*W, min((i+1)*W, n)) of T joined by single spaces, and   *)
(* the chunks joined by single spaces are T with every run of whitespace   *)
(* collapsed to one space and the ends trimmed; no words give no chunks.   *)
(* The words of T are read off T directly here: a word starts at every     *)
(* character that is no whitespace and follows whitespace or nothing.      *)
(***************************************************************************)
WordStarts(T) ==
    {k \in 1..Len(T) : T[k] \notin Whitespace /\ (k = 1 \/ T[k - 1] \in Whitespace)}

WordEnd(T, k) ==
    CHOOSE e \in k..Len(T) :
        /\ \A j \in k..e : T[j] \notin Whitespace
        /\ (e = Len(T) \/ T[e + 1] \in Whitespace)

\* the w-th word of T, w counted from 0
NthWord(T, w) ==
    LET k == CHOOSE s \in WordStarts(T) : Cardinality({x \in WordStarts(T) : x < s}) = w
    IN  SubSeq(T, k, WordEnd(T, k))

WordCount(T) == Cardinality(WordStarts(T))

CeilDiv(n, w) == (n + w - 1) \div w

\* the words lo .. hi-1 of T, each followed by one space
RECURSIVE SpacedWords(_, _, _)
SpacedWords(T, lo, hi) ==
    IF lo >= hi THEN <<>>
    ELSE NthWord(T, lo) \o <<" ">> \o SpacedWords(T, lo + 1, hi)

\* ... and without the trailing space
WordsJoined(T, lo, hi) ==
    LET s == SpacedWords(T, lo, hi)
    IN  IF s = <<>> THEN <<>> ELSE SubSeq(s, 1, Len(s) - 1)

ChunkDeterminism ==
    ret.op = "_chunk_transcript" =>
        LET T == call.transcript
            W == call.chunk_size
            n == WordCount(T)
            chunks == ret.chunks
        IN  /\ Len(chunks) = CeilDiv(n, W)
            /\ \A i \in 0..(Len(chunks) - 1) :
                   chunks[i + 1] = WordsJoined(T, i * W, Min((i + 1) * W, n))
            /\ Join(chunks) = WordsJoined(T, 0, n)
            /\ (n = 0 => chunks = <<>>)

\* a transcript with irregular whitespace whose last chunk is short
ChunkDeterminismWitness ==
    /\ ret.op = "_chunk_transcript"
    /\ call.transcript = <<"a", " ", "\n", "b", "a">>
    /\ call.chunk_size = 1
    /\ ret.chunks = << <<"a">>, <<"b", "a">> >>


(***************************************************************************)
(* The inputs of the service calls.                                        *)
(***************************************************************************)
MaxBatch == 2        \* most frames handed to one add_video_content call
MaxFramesArg == 2    \* largest max_frames asked of get_context_for_chat

VideoIds == {"A", "B"}
FrameIdList == <<"f1", "f2", "f3">>
Scenes == {"cat", "dog"}
Transcripts == {<<>>, <<"a", " ", "b">>, <<"b", " ", "a", " ", "b">>}
Queries == {<<"a">>, <<"b", " ", "a">>}

\* the batches of at most MaxBatch frames of video v with ids among the first
\* nids of FrameIdList, in the order of that list
FrameBatches(v, nids) ==
    LET positions == UNION {[1..n -> 1..nids] : n \in 0..Min(MaxBatch, nids)}
        rising == {ps \in positions : \A i, j \in DOMAIN ps : i < j => ps[i] < ps[j]}
    IN  UNION {{[k \in DOMAIN ps |-> VideoFrame(FrameIdList[ps[k]], v, 0, sc[k])] :
                   sc \in [DOMAIN ps -> Scenes]} : ps \in rising}

VideoInfos == [id : VideoIds, transcript : Transcripts]

\* a call hands the service a video and frames of that video
IngestRequests(nids, faulty) ==
    UNION {UNION {{[video_info |-> vi, frames |-> fs, fault |-> k] :
                      k \in 0..(IF faulty THEN Units(vi, fs) ELSE 0)} :
                  fs \in FrameBatches(vi.id, nids)} :
           vi \in VideoInfos}

(***************************************************************************)
(* The service under direct calls: add_video_content and                   *)
(* get_context_for_chat on one RAGService, in any order.                   *)
(***************************************************************************)
InitRAG ==
    /\ AppAtStartup /\ llm = NoClients
    /\ frames_collection = EmptyIndex
    /\ transcripts_collection = EmptyIndex
    /\ chat_collection = EmptyIndex
    /\ call = [op |-> "none"]
    /\ ret = [op |-> "none"]

Ingest ==
    /\ \E req \in IngestRequests(Len(FrameIdList), FALSE) :
           AddVideoContent(req.video_info, req.frames, req.fault)
    /\ UNCHANGED <<chat_collection, call>>
    /\ UNCHANGED appVars

GetContextForChat ==
    /\ \E query \in Queries, video_id \in VideoIds, max_frames \in 1..MaxFramesArg :
           \E search_results \in search_relevant_content(query, video_id, max_frames * 2) :
               ret' = [op |-> "get_context_for_chat",
                       query |-> query, video_id |-> video_id, max_frames |-> max_frames,
                       search |-> search_results,
                       context |-> get_context_for_chat(search_results, max_frames)]
    /\ UNCHANGED <<frames_collection, transcripts_collection, chat_collection, call>>
    /\ UNCHANGED appVars

NextRAG == Ingest \/ GetContextForChat

SpecRAG == InitRAG /\ [][NextRAG]_vars

(***************************************************************************)
(* Two ingestions in a row: Init draws the two calls, each with a fault at *)
(* any of its units or none, and the action serves them in order.          *)
(***************************************************************************)
IngestFrameIds == 2  \* how many ids of FrameIdList the two calls draw from

InitIngest ==
    /\ AppAtStartup /\ llm = NoClients
    /\ frames_collection = EmptyIndex
    /\ transcripts_collection = EmptyIndex
    /\ chat_collection = EmptyIndex
    /\ call \in {[op |-> "ingest", script |-> <<r1, r2>>, done |-> 0] :
                    r1, r2 \in IngestRequests(IngestFrameIds, TRUE)}
    /\ ret = [op |-> "none"]

ServeIngest ==
    /\ call.done < Len(call.script)
    /\ LET req == call.script[call.done + 1]
       IN  AddVideoContent(req.video_info, req.frames, req.fault)
    /\ call' = [call EXCEPT !.done = @ + 1]
    /\ UNCHANGED chat_collection
    /\ UNCHANGED appVars

NextIngest == ServeIngest

SpecIngest == InitIngest /\ [][NextIngest]_vars

(***************************************************************************)
(* C1.  Video-scoped retrieval.  Whatever the two collections hold, a      *)
(* search for video A returns no frame hit, no transcript hit and no       *)
(* context entry whose stored metadata names another video, also when a    *)
(* record of another video is nearer to the query than every record of A.  *)
(***************************************************************************)
VideoScopedRetrieval ==
    ret.op = "get_context_for_chat" =>
        /\ \A i \in DOMAIN ret.search.frames.ids :
               /\ ret.search.frames.metadatas[i].video_id = ret.video_id
               /\ frames_collection[ret.search.frames.ids[i]].metadata.video_id = ret.video_id
        /\ \A i \in DOMAIN ret.search.transcript.ids :
               /\ ret.search.transcript.metadatas[i].video_id = ret.video_id
               /\ transcripts_collection[ret.search.transcript.ids[i]].metadata.video_id
                      = ret.video_id
        /\ \A i \in DOMAIN ret.context.frames :
               frames_collection[ret.context.frames[i].frame_id].metadata.video_id
                   = ret.video_id

\* some record of coll that belongs to another video is strictly nearer to the
\* query than every record of the video asked for, which has records
OtherVideoNearer(coll, query, video_id) ==
    LET d(id) == CosineDistance(encode(query), coll[id].embedding)
    IN  /\ Matching(coll, video_id) # {}
        /\ \E x \in DOMAIN coll :
               /\ coll[x].metadata.video_id # video_id
               /\ \A y \in Matching(coll, video_id) : d(x) < d(y)

VideoScopedRetrievalWitness ==
    /\ ret.op = "get_context_for_chat"
    /\ OtherVideoNearer(frames_collection, ret.query, ret.video_id)
    /\ OtherVideoNearer(transcripts_collection, ret.query, ret.video_id)
    /\ ret.context.frames # <<>>
    /\ ret.search.transcript.ids # <<>>

(***************************************************************************)
(* C2.  Bounded context size.  get_context_for_chat(query, video,          *)
(* max_frames) returns at most max_frames frame entries, however many      *)
(* frames of the video the index holds.                                    *)
(***************************************************************************)
BoundedContextSize ==
    ret.op = "get_context_for_chat" => Len(ret.context.frames) <= ret.max_frames

\* more frames of the video than the 2 * max_frames the query asks the index for
BoundedContextSizeWitness ==
    /\ ret.op = "get_context_for_chat"
    /\ Cardinality(Matching(frames_collection, ret.video_id)) > 2 * ret.max_frames
    /\ Len(ret.search.frames.ids) = 2 * ret.max_frames
    /\ Len(ret.context.frames) = ret.max_frames

(***************************************************************************)
(* C3.  Relevance bound, as claimed: every relevance_score of a returned   *)
(* frame entry lies in [0, 1], whatever distance the index reports.        *)
(***************************************************************************)
RelevanceInUnitInterval ==
    ret.op = "get_context_for_chat" =>
        \A i \in DOMAIN ret.context.frames :
            /\ 0 <= ret.context.frames[i].relevance_score
            /\ ret.context.frames[i].relevance_score <= One

(***************************************************************************)
(* C4.  Idempotent upsert, as claimed: when a frame id is added a second   *)
(* time with another description, the record under that id holds the       *)
(* description of the second add.  Read after two add_video_content calls  *)
(* neither of which raised.                                                *)
(***************************************************************************)
IdempotentUpsert ==
    (/\ call.op = "ingest" /\ call.done = 2
     /\ call.script[1].fault = 0 /\ call.script[2].fault = 0) =>
        \A k \in DOMAIN call.script[2].frames :
            LET frame == call.script[2].frames[k]
            IN  /\ frame.id \in DOMAIN frames_collection
                /\ frames_collection[frame.id].document = _create_frame_description(frame)

(***************************************************************************)
(* C8.  Partial-success ingestion, as claimed: when one unit of an         *)
(* add_video_content call fails, every other chunk and frame of that call  *)
(* is in its collection once the call is over.                             *)
(***************************************************************************)
PartialSuccessIngestion ==
    (call.op = "ingest" /\ call.done >= 1 /\ call.script[1].fault # 0) =>
        LET req == call.script[1]
            nchunks == Len(TranscriptChunks(req.video_info))
        IN  /\ \A i \in 0..(nchunks - 1) :
                   i + 1 # req.fault =>
                       ChunkId(req.video_info.id, i) \in DOMAIN transcripts_collection
            /\ \A k \in DOMAIN req.frames :
                   nchunks + k # req.fault =>
                       req.frames[k].id \in DOMAIN frames_collection

(***************************************************************************)
(* The application: upload_video with its background task, and             *)
(* chat_with_video.  Every route and the background task are coroutines on *)
(* one event loop, and none of the calls they await suspends (the Chroma,  *)
(* Whisper, OpenCV and provider clients are all synchronous), so a         *)
(* coroutine that has started keeps the loop until it returns: running     *)
(* names it.  Its statements are still separate steps of the model, so the *)
(* values it stores on the way are states.                                 *)
(***************************************************************************)
MaxUploads == 1      \* uploads accepted in a run
MaxTurns == 2        \* chat requests in a run
MaxExtract == 2      \* most frames _extract_frames gets out of one video

MAX_FILE_SIZE == 100 * 1024 * 1024

\* uuid.uuid4(): a value never drawn before
UuidList == <<"u1", "u2", "u3", "u4", "u5", "u6", "u7", "u8", "u9", "u10",
              "u11", "u12", "u13", "u14", "u15", "u16", "u17", "u18">>
Uuid(n) == UuidList[n]

UPLOADING == "uploading"
PROCESSING == "processing"
READY == "ready"
ERROR == "error"

VideoInfo(id, status, transcript, frame_count, error) ==
    [id |-> id, status |-> status, transcript |-> transcript,
     frame_count |-> frame_count, metadata |-> [error |-> error]]

LLMConfigs == [openai : BOOLEAN, anthropic : BOOLEAN, gpt4 : BOOLEAN]

\* frames put into the persistent store by a direct add_video_content call:
\* the only way a frame gets there (see get_video_frames)
SeedVideo == [id |-> "A", transcript |-> <<>>]
SeedFrames == <<VideoFrame("f1", "A", 0, "cat")>>

InitApp ==
    /\ AppAtStartup
    /\ llm \in LLMConfigs
    /\ frames_collection = EmptyIndex
    /\ transcripts_collection = EmptyIndex
    /\ chat_collection = EmptyIndex
    /\ call = [op |-> "none"]
    /\ ret = [op |-> "none"]

IngestDirect ==
    /\ running = "idle"
    /\ frames_collection = EmptyIndex
    /\ AddVideoContent(SeedVideo, SeedFrames, 0)
    /\ UNCHANGED <<chat_collection, call>>
    /\ UNCHANGED appVars

(***************************************************************************)
(* upload_video.  A file that is no video or is too large is refused       *)
(* before anything is stored.  uploaded_at is given uuid4().time, a 60-bit *)
(* integer, where VideoInfo declares a datetime: whether the model's       *)
(* validation takes it depends on the value drawn, and when it does not    *)
(* the request ends there, with the id drawn and nothing stored.           *)
(***************************************************************************)
UploadFiles == [is_video : BOOLEAN, size : {1, MAX_FILE_SIZE + 1}]

UploadVideo ==
    /\ running = "idle"
    /\ Cardinality(DOMAIN tasks) < MaxUploads
    /\ \E file \in UploadFiles, uploaded_at_valid \in BOOLEAN :
           /\ file.is_video
           /\ ~(file.size > MAX_FILE_SIZE)
           /\ LET video_id == Uuid(next_uuid)
              IN  IF uploaded_at_valid
                  THEN /\ videos_db' = videos_db @@
                              (video_id :> VideoInfo(video_id, UPLOADING, None, None, None))
                       /\ tasks' = tasks @@ (video_id :> "queued")
                  ELSE /\ tasks' = tasks @@ (video_id :> "rejected")
                       /\ UNCHANGED videos_db
    /\ next_uuid' = next_uuid + 1
    /\ UNCHANGED <<frames_collection, transcripts_collection, chat_collection, call, ret,
                   frames_dir, chat_messages_db, turns, running, llm>>

(***************************************************************************)
(* process_video_background, lines 118-119: the task starts.               *)
(***************************************************************************)
TaskStart(video_id) ==
    /\ running = "idle"
    /\ tasks[video_id] = "queued"
    /\ videos_db' = [videos_db EXCEPT ![video_id].status = PROCESSING]
    /\ tasks' = [tasks EXCEPT ![video_id] = "processing"]
    /\ running' = video_id
    /\ UNCHANGED <<frames_collection, transcripts_collection, chat_collection, call, ret,
                   frames_dir, chat_messages_db, turns, next_uuid, llm>>

(***************************************************************************)
(* process_video_background, lines 122-125: process_video and the store of *)
(* what it returns.  failure names the step of process_video that raises:  *)
(* a failed transcription is caught in _transcribe_audio and gives "";     *)
(* any other lands in process_video's except, which returns an ERROR       *)
(* VideoInfo -- unless os.path.getsize raises there too (stat_fails), and  *)
(* then the exception reaches the task's own except (lines 131-135).       *)
(***************************************************************************)
ProcessFailures == {"none", "metadata", "frames", "transcribe", "analyze"}

\* the frames _extract_frames returns: one a second, each with a fresh id
ExtractedFrames(video_id, n, first_uuid) ==
    [k \in 1..n |-> VideoFrame(Uuid(first_uuid + k - 1), video_id, k - 1, "scene")]

ErrorText == "str(e)"

\* what process_video returns when nothing raised: the VideoInfo that
\* _extract_video_metadata built with status PROCESSING, then frame_count,
\* transcript and, at line 36, status READY
ProcessedInfoKeepsStatus(video_id, transcript, frame_count) ==
    VideoInfo(video_id, PROCESSING, transcript, frame_count, None)

ProcessedInfo(video_id, transcript, frame_count) ==
    VideoInfo(video_id, READY, transcript, frame_count, None)

\* the task's except, lines 131-135; an upload stored the record, so the
\* test video_id in videos_db holds
OnTaskExceptionIgnores(db, video_id) == db

OnTaskException(db, video_id) ==
    [db EXCEPT ![video_id].status = ERROR, ![video_id].metadata.error = ErrorText]

\* call keeps what went wrong in the task that ran last; fault is -1 until
\* add_video_content is called
TaskLog(video_id, failure, stat_fails, fault) ==
    [op |-> "process_video_background", video_id |-> video_id,
     failure |-> failure, stat_fails |-> stat_fails, fault |-> fault]

ProcessVideo(video_id) ==
    /\ running = video_id
    /\ tasks[video_id] = "processing"
    /\ \E failure \in ProcessFailures, n \in 0..MaxExtract, text \in Transcripts,
          stat_fails \in BOOLEAN :
           LET extracted == IF failure \in {"metadata", "frames"} THEN 0 ELSE n
               transcript == IF failure = "transcribe" THEN <<>> ELSE text
               caught == failure \in {"metadata", "frames", "analyze"}
           IN  /\ (failure \in {"metadata", "frames"} => n = 0)
               /\ (failure \in {"metadata", "frames", "analyze"} => text = <<>>)
               /\ (failure = "transcribe" => text = <<>>)
               /\ (~caught => ~stat_fails)
               /\ frames_dir' = frames_dir @@
                      (video_id :> ExtractedFrames(video_id, extracted, next_uuid))
               /\ next_uuid' = next_uuid + extracted
               /\ call' = TaskLog(video_id, failure, stat_fails, -1)
               /\ IF ~caught
                  THEN /\ videos_db' = [videos_db EXCEPT ![video_id] =
                              ProcessedInfo(video_id, transcript, extracted)]
                       /\ tasks' = [tasks EXCEPT ![video_id] = "stored"]
                       /\ UNCHANGED running
                  ELSE IF ~stat_fails
                  THEN /\ videos_db' = [videos_db EXCEPT ![video_id] =
                              VideoInfo(video_id, ERROR, None, None, ErrorText)]
                       /\ tasks' = [tasks EXCEPT ![video_id] = "stored"]
                       /\ UNCHANGED running
                  ELSE /\ videos_db' = OnTaskException(videos_db, video_id)
                       /\ tasks' = [tasks EXCEPT ![video_id] = "done"]
                       /\ running' = "idle"
    /\ UNCHANGED <<frames_collection, transcripts_collection, chat_collection, ret,
                   chat_messages_db, turns, llm>>

(***************************************************************************)
(* process_video_background, lines 128-135: get_video_frames, then         *)
(* add_video_content; an exception out of it sets ERROR on the stored      *)
(* record.                                                                 *)
(***************************************************************************)
\* VideoProcessor.get_video_frames: "For now, return empty list"
get_video_frames(video_id) == <<>>

AddToRag(video_id) ==
    /\ running = video_id
    /\ tasks[video_id] = "stored"
    /\ LET video_info == videos_db[video_id]
           frames == get_video_frames(video_id)
       IN  \E fault \in 0..Units(video_info, frames) :
               /\ AddVideoContent(video_info, frames, fault)
               /\ videos_db' = IF fault = 0 THEN videos_db
                               ELSE OnTaskException(videos_db, video_id)
               /\ call' = [call EXCEPT !.fault = fault]
    /\ tasks' = [tasks EXCEPT ![video_id] = "done"]
    /\ running' = "idle"
    /\ UNCHANGED <<chat_collection, frames_dir, chat_messages_db, turns, next_uuid, llm>>

(***************************************************************************)
(* LLMService.generate_response.  Branch is the provider call the          *)
(* configuration and the context select; provider_ok says whether that     *)
(* call returned.  The whole body is inside try/except Exception.          *)
(***************************************************************************)
TextOnlyBranch ==
    IF llm.openai THEN "openai_text"
    ELSE IF llm.anthropic THEN "anthropic_text"
    ELSE "unconfigured"

Branch(context, use_vision) ==
    IF use_vision /\ context.frames # <<>>
    THEN IF llm.openai /\ llm.gpt4 THEN "openai_vision"
         ELSE IF llm.anthropic THEN "anthropic_vision"
         ELSE TextOnlyBranch
    ELSE TextOnlyBranch

ApologyError == <<"I apologize, but I encountered an error">>
ApologyUnconfigured == <<"I apologize, but no LLM service is configured">>
Answer == <<"answer">>

\* confidence, in tenths
ProviderResponse(branch) ==
    [raised |-> FALSE, content |-> Answer,
     confidence |-> IF branch \in {"openai_vision", "anthropic_vision"} THEN 9 ELSE 8]

generate_response_raises(branch, provider_ok) ==
    IF branch = "unconfigured"
    THEN [raised |-> FALSE, content |-> ApologyUnconfigured, confidence |-> 0]
    ELSE IF provider_ok THEN ProviderResponse(branch)
    ELSE Raised

generate_response(branch, provider_ok) ==
    IF branch = "unconfigured"
    THEN [raised |-> FALSE, content |-> ApologyUnconfigured, confidence |-> 0]
    ELSE IF provider_ok THEN ProviderResponse(branch)
    ELSE [raised |-> FALSE, content |-> ApologyError, confidence |-> 0]

(***************************************************************************)
(* chat_with_video.  A turn is the request with what the handler has got   *)
(* so far; the turn that runs is the last of turns.                        *)
(***************************************************************************)
Messages == {<<"hello">>}

ChatRequests(video_ids) ==
    [video_id : video_ids, message : Messages, use_vision : BOOLEAN,
     max_context_frames : {MaxFramesArg}]

ChatMessage(id, video_id, role, content, context_frames) ==
    [id |-> id, video_id |-> video_id, role |-> role, content |-> content,
     context_frames |-> context_frames]

NoResponse == [raised |-> FALSE, content |-> <<>>, confidence |-> -1]

Last(seq) == seq[Len(seq)]

SetLast(seq, x) == [seq EXCEPT ![Len(seq)] = x]

\* lines 23-27: the context; retrieval records whether the index answered
ChatGetContext ==
    /\ running = "idle"
    /\ Len(turns) < MaxTurns
    /\ \E request \in ChatRequests({"A"} \cup DOMAIN videos_db) :
           \E search \in {Raised} \cup
                   search_relevant_content(request.message, request.video_id,
                                           request.max_context_frames * 2) :
               LET context == get_context_for_chat(search, request.max_context_frames)
               IN  /\ turns' = Append(turns,
                          [request |-> request,
                           retrieval |-> IF search.raised THEN "error" ELSE "ok",
                           context |-> context,
                           pc |-> IF context.raised THEN "failed" ELSE "generate",
                           error |-> IF context.raised THEN "retrieval" ELSE None,
                           branch |-> None, provider |-> "not called",
                           response |-> NoResponse,
                           message_id |-> None, assistant_id |-> None])
                   /\ running' = IF context.raised THEN "idle" ELSE "turn"
    /\ UNCHANGED <<frames_collection, transcripts_collection, chat_collection, call, ret,
                   videos_db, frames_dir, tasks, chat_messages_db, next_uuid, llm>>

\* lines 30-34: the response; nothing catches what generate_response raises
ChatGenerate ==
    /\ running = "turn"
    /\ Last(turns).pc = "generate"
    /\ LET turn == Last(turns)
           branch == Branch(turn.context, turn.request.use_vision)
       IN  \E provider_ok \in BOOLEAN :
               LET response == generate_response(branch, provider_ok)
                   called == [turn EXCEPT
                                 !.branch = branch,
                                 !.provider = IF branch = "unconfigured" THEN "not called"
                                              ELSE IF provider_ok THEN "ok" ELSE "error"]
               IN  /\ (branch = "unconfigured" => provider_ok)
                   /\ IF response.raised
                      THEN /\ turns' = SetLast(turns, [called EXCEPT !.pc = "failed",
                                                                     !.error = "generation"])
                           /\ running' = "idle"
                      ELSE /\ turns' = SetLast(turns, [called EXCEPT !.pc = "store user",
                                                                     !.response = response])
                           /\ UNCHANGED running
    /\ UNCHANGED <<frames_collection, transcripts_collection, chat_collection, call, ret,
                   videos_db, frames_dir, tasks, chat_messages_db, next_uuid, llm>>

ContextFrameIds(context) == [i \in DOMAIN context.frames |-> context.frames[i].frame_id]

AppendMessageReplaces(db, video_id, message) ==
    [v \in DOMAIN db \cup {video_id} |-> IF v = video_id THEN <<message>> ELSE db[v]]

\* chat_messages_db[video_id].append(message), the list created when missing
AppendMessage(db, video_id, message) ==
    IF video_id \in DOMAIN db
    THEN [db EXCEPT ![video_id] = Append(@, message)]
    ELSE db @@ (video_id :> <<message>>)

\* add_chat_message's arguments to chat_collection.add
ChatRecord(message) ==
    [embedding |-> encode(message.content),
     document |-> message.content,
     metadata |-> [video_id |-> message.video_id, message_id |-> message.id,
                   role |-> message.role]]

\* add_chat_message; add_fails: encode or add raises
add_chat_message(coll, message, add_fails) ==
    IF add_fails THEN coll ELSE CollectionAdd(coll, message.id, ChatRecord(message))

\* lines 36-53: the user message, stored and then handed to add_chat_message
ChatStoreUser ==
    /\ running = "turn"
    /\ Last(turns).pc = "store user"
    /\ LET turn == Last(turns)
           chat_message == ChatMessage(Uuid(next_uuid), turn.request.video_id, "user",
                                       turn.request.message, ContextFrameIds(turn.context))
       IN  /\ chat_messages_db' =
                  AppendMessage(chat_messages_db, turn.request.video_id, chat_message)
           /\ \E add_fails \in BOOLEAN :
                  /\ chat_collection' = add_chat_message(chat_collection, chat_message, add_fails)
                  /\ turns' = SetLast(turns,
                         IF add_fails
                         THEN [turn EXCEPT !.message_id = chat_message.id,
                                           !.pc = "failed", !.error = "add_chat_message"]
                         ELSE [turn EXCEPT !.message_id = chat_message.id,
                                           !.pc = "store assistant"])
                  /\ running' = IF add_fails THEN "idle" ELSE "turn"
    /\ next_uuid' = next_uuid + 1
    /\ UNCHANGED <<frames_collection, transcripts_collection, call, ret,
                   videos_db, frames_dir, tasks, llm>>

\* lines 55-87: the assistant message is stored in chat_messages_db and the
\* response goes out
ChatStoreAssistant ==
    /\ running = "turn"
    /\ Last(turns).pc = "store assistant"
    /\ LET turn == Last(turns)
           assistant_message ==
               ChatMessage(Uuid(next_uuid), turn.request.video_id, "assistant",
                           turn.response.content, ContextFrameIds(turn.context))
       IN  /\ chat_messages_db' =
                  AppendMessage(chat_messages_db, turn.request.video_id, assistant_message)
           /\ turns' = SetLast(turns, [turn EXCEPT !.assistant_id = assistant_message.id,
                                                   !.pc = "done"])
    /\ next_uuid' = next_uuid + 1
    /\ running' = "idle"
    /\ UNCHANGED <<frames_collection, transcripts_collection, chat_collection, call, ret,
                   videos_db, frames_dir, tasks, llm>>

NextApp ==
    \/ IngestDirect
    \/ UploadVideo
    \/ \E video_id \in DOMAIN tasks :
           TaskStart(video_id) \/ ProcessVideo(video_id) \/ AddToRag(video_id)
    \/ ChatGetContext
    \/ ChatGenerate
    \/ ChatStoreUser
    \/ ChatStoreAssistant

SpecApp == InitApp /\ [][NextApp]_vars

(***************************************************************************)
(* C6  Both turns are indexed: once a chat turn has completed, the chat    *)
(* collection holds a record for the turn's user message and a record for  *)
(* its assistant message, each with the turn's video_id.                   *)
(***************************************************************************)
IndexedInChat(message_id, video_id) ==
    /\ message_id \in DOMAIN chat_collection
    /\ chat_collection[message_id].metadata.video_id = video_id

BothTurnsIndexed ==
    \A i \in DOMAIN turns :
        turns[i].pc = "done" =>
            /\ IndexedInChat(turns[i].message_id, turns[i].request.video_id)
            /\ IndexedInChat(turns[i].assistant_id, turns[i].request.video_id)

(***************************************************************************)
(* C7  End-to-end index population: when the background task of an         *)
(* uploaded video has finished and the video is READY, every frame         *)
(* extracted during processing has a record in the frames collection with  *)
(* the video's id, and every chunk of a non-empty transcript has a record  *)
(* in the transcripts collection.                                          *)
(***************************************************************************)
FrameIndexed(frame) ==
    /\ frame.id \in DOMAIN frames_collection
    /\ frames_collection[frame.id].metadata.video_id = frame.video_id

ChunksIndexed(video_info) ==
    HasTranscript(video_info) =>
        \A i \in DOMAIN TranscriptChunks(video_info) :
            /\ ChunkId(video_info.id, i - 1) \in DOMAIN transcripts_collection
            /\ transcripts_collection[ChunkId(video_info.id, i - 1)].metadata.video_id
                   = video_info.id

EndToEndIndexPopulation ==
    \A video_id \in DOMAIN tasks :
        (tasks[video_id] = "done" /\ videos_db[video_id].status = READY) =>
            /\ \A k \in DOMAIN frames_dir[video_id] : FrameIndexed(frames_dir[video_id][k])
            /\ ChunksIndexed(videos_db[video_id])

(***************************************************************************)
(* C9  Retrieval failure is not masked: when an index query of             *)
(* get_context_for_chat fails, the call raises and the turn ends with that *)
(* error, no bundle returned; a bundle with no frames and no transcript is *)
(* returned only when the queries answered and the index holds nothing of  *)
(* the video.                                                              *)
(***************************************************************************)
EmptyBundle(context) ==
    /\ ~context.raised
    /\ context.frames = <<>>
    /\ context.transcript = <<>>

RetrievalNotMaskedStep ==
    Len(turns') = Len(turns) + 1 =>
        LET turn == Last(turns')
        IN  /\ turn.retrieval = "error" =>
                /\ turn.context.raised
                /\ turn.pc = "failed"
                /\ turn.error = "retrieval"
            /\ EmptyBundle(turn.context) =>
                /\ turn.retrieval = "ok"
                /\ Matching(frames_collection, turn.request.video_id) = {}
                /\ Matching(transcripts_collection, turn.request.video_id) = {}

RetrievalFailureNotMasked == [][RetrievalNotMaskedStep]_vars

\* a turn whose retrieval failed, and a turn with an empty bundle
RetrievalFailureNotMaskedWitness ==
    /\ \E i \in DOMAIN turns : turns[i].retrieval = "error" /\ turns[i].pc = "failed"
    /\ \E i \in DOMAIN turns : EmptyBundle(turns[i].context)

(***************************************************************************)
(* C10  Generation failure is degraded, not propagated: when the provider  *)
(* call of generate_response fails, in any branch, the response has        *)
(* confidence 0 and an apology for content, the turn does not end with a   *)
(* generation error, and the completed turn has its user and assistant     *)
(* messages in chat_messages_db.                                           *)
(***************************************************************************)
StoredMessage(message_id, video_id, role, content) ==
    /\ video_id \in DOMAIN chat_messages_db
    /\ \E k \in DOMAIN chat_messages_db[video_id] :
           /\ chat_messages_db[video_id][k].id = message_id
           /\ chat_messages_db[video_id][k].role = role
           /\ chat_messages_db[video_id][k].content = content

GenerationFailureDegraded ==
    \A i \in DOMAIN turns :
        turns[i].provider = "error" =>
            /\ turns[i].response.confidence = 0
            /\ turns[i].response.content = ApologyError
            /\ turns[i].error # "generation"
            /\ turns[i].pc \in {"store user", "store assistant", "done", "failed"}
            /\ turns[i].pc = "failed" => turns[i].error = "add_chat_message"
            /\ turns[i].pc = "done" =>
                /\ StoredMessage(turns[i].message_id, turns[i].request.video_id,
                                 "user", turns[i].request.message)
                /\ StoredMessage(turns[i].assistant_id, turns[i].request.video_id,
                                 "assistant", ApologyError)

\* completed turns whose provider call failed, one in a vision branch and one
\* in a text-only branch
GenerationFailureDegradedWitness ==
    /\ \E i \in DOMAIN turns :
           /\ turns[i].provider = "error" /\ turns[i].pc = "done"
           /\ turns[i].branch \in {"openai_vision", "anthropic_vision"}
    /\ \E i \in DOMAIN turns :
           /\ turns[i].provider = "error" /\ turns[i].pc = "done"
           /\ turns[i].branch \in {"openai_text", "anthropic_text"}

(***************************************************************************)
(* C11  Pipeline failure is recorded: when metadata extraction, frame      *)
(* extraction, analysis or the ingestion into the index fails, the task    *)
(* ends (the failure stays inside process_video_background) with the       *)
(* stored status ERROR and the error text in the metadata; a failed        *)
(* transcription alone gives an empty transcript and no ERROR.             *)
(***************************************************************************)
TaskFailed(log) ==
    \/ log.failure \in {"metadata", "frames", "analyze"}
    \/ log.fault > 0

PipelineFailureRecorded ==
    call.op = "process_video_background" =>
        LET video_info == videos_db[call.video_id]
        IN  /\ (call.failure \in {"metadata", "frames", "analyze"}) =>
                /\ video_info.status = ERROR
                /\ video_info.metadata.error = ErrorText
            /\ tasks[call.video_id] = "done" =>
                /\ running # call.video_id
                /\ TaskFailed(call) =>
                    /\ video_info.status = ERROR
                    /\ video_info.metadata.error = ErrorText
                /\ (call.failure = "transcribe" /\ call.fault = 0) =>
                    /\ video_info.status = READY
                    /\ video_info.transcript = <<>>
                    /\ video_info.metadata.error = None

\* a finished task whose ingestion failed, on a video that process_video
\* returned READY
PipelineFailureRecordedWitness ==
    /\ call.op = "process_video_background"
    /\ tasks[call.video_id] = "done"
    /\ call.failure = "none"
    /\ call.fault > 0
    /\ videos_db[call.video_id].status = ERROR

(***************************************************************************)
(* Uploads and their background tasks under fair scheduling.  A handler    *)
(* or task that runs keeps the event loop until it returns (none of its    *)
(* awaits suspends), so a chat turn can only delay the start of a task:    *)
(* the event loop runs a queued task at some point, and a task that runs   *)
(* goes on to its next step.                                               *)
(***************************************************************************)
NextTasks ==
    \/ UploadVideo
    \/ \E video_id \in DOMAIN tasks :
           TaskStart(video_id) \/ ProcessVideo(video_id) \/ AddToRag(video_id)

TaskFairness ==
    /\ SF_vars(\E video_id \in DOMAIN tasks : TaskStart(video_id))
    /\ WF_vars(\E video_id \in DOMAIN tasks : ProcessVideo(video_id))
    /\ WF_vars(\E video_id \in DOMAIN tasks : AddToRag(video_id))

SpecTasksFair == InitApp /\ [][NextTasks]_vars /\ TaskFairness

(***************************************************************************)
(* C12  Eventual status transition: every accepted upload (a record in     *)
(* videos_db) reaches, under fair scheduling, a state in which its status  *)
(* is READY or ERROR; none stays UPLOADING or PROCESSING forever.          *)
(***************************************************************************)
Settled(video_id) ==
    /\ video_id \in DOMAIN videos_db
    /\ videos_db[video_id].status \in {READY, ERROR}

\* the ids an upload can draw when only uploads and tasks draw ids: each
\* earlier upload took one, and one for each frame its task extracted
UploadUuids == {Uuid(k) : k \in 1..(1 + (MaxUploads - 1) * (MaxExtract + 1))}

EventualStatusTransition ==
    \A video_id \in UploadUuids :
        (video_id \in DOMAIN videos_db) ~> Settled(video_id)

\* an accepted upload whose task has run to its end, one way and the other
EventualStatusTransitionWitness ==
    \E video_id \in DOMAIN videos_db :
        /\ tasks[video_id] = "done"
        /\ Settled(video_id)
        /\ call.op = "process_video_background" /\ call.video_id = video_id
        /\ call.stat_fails

(***************************************************************************)
(* C13  Empty-content graceful degradation: get_context_for_chat on a      *)
(* video with no record in the frames collection and none in the           *)
(* transcripts collection returns no frames and the empty transcript, and  *)
(* does not raise, whatever the index holds of other videos.               *)
(***************************************************************************)
NothingIndexed(video_id) ==
    /\ Matching(frames_collection, video_id) = {}
    /\ Matching(transcripts_collection, video_id) = {}

EmptyContentDegradation ==
    (ret.op = "get_context_for_chat" /\ NothingIndexed(ret.video_id)) =>
        ret.context = [raised |-> FALSE, frames |-> <<>>, transcript |-> <<>>]

\* the call on a video with nothing indexed, next to a video with frames and
\* transcript chunks
EmptyContentDegradationWitness ==
    /\ ret.op = "get_context_for_chat"
    /\ NothingIndexed(ret.video_id)
    /\ \E other \in VideoIds \ {ret.video_id} :
           /\ Matching(frames_collection, other) # {}
           /\ Matching(transcripts_collection, other) # {}

(***************************************************************************)
(* Chat turns in flight together.  chat_with_video is a coroutine: the     *)
(* event loop can switch to another request at an await (lines 23, 30 and  *)
(* 53) and nowhere else, so here the turns interleave at exactly those     *)
(* points, and the code between two awaits is one step.  TurnXxx(i) is the *)
(* step of the i-th request received.                                      *)
(***************************************************************************)
NoContext == [raised |-> FALSE, frames |-> <<>>, transcript |-> <<>>]

NewTurn(request) ==
    [request |-> request, retrieval |-> "not called", context |-> NoContext,
     pc |-> "get context", error |-> None, branch |-> None, provider |-> "not called",
     response |-> NoResponse, message_id |-> None, assistant_id |-> None]

\* the index when the turns arrive: add_video_content(SeedVideo, SeedFrames) done
SeededFrames == _add_frames(EmptyIndex, SeedFrames, 0)

InitTurns ==
    /\ AppAtStartup
    /\ llm \in LLMConfigs
    /\ frames_collection = SeededFrames
    /\ transcripts_collection = EmptyIndex
    /\ chat_collection = EmptyIndex
    /\ call = [op |-> "none"]
    /\ ret = [op |-> "none"]

TurnArrives ==
    /\ Len(turns) < MaxTurns
    /\ \E request \in ChatRequests({SeedVideo.id}) :
           turns' = Append(turns, NewTurn(request))
    /\ UNCHANGED <<frames_collection, transcripts_collection, chat_collection, call, ret,
                   videos_db, frames_dir, tasks, chat_messages_db, running, next_uuid, llm>>

\* line 23, up to the await of line 30
TurnGetContext(i) ==
    /\ turns[i].pc = "get context"
    /\ LET request == turns[i].request
       IN  \E search \in {Raised} \cup
                   search_relevant_content(request.message, request.video_id,
                                           request.max_context_frames * 2) :
               LET context == get_context_for_chat(search, request.max_context_frames)
               IN  turns' = [turns EXCEPT ![i] =
                       IF context.raised
                       THEN [@ EXCEPT !.retrieval = "error", !.pc = "failed",
                                      !.error = "retrieval"]
                       ELSE [@ EXCEPT !.retrieval = "ok", !.context = context,
                                      !.pc = "generate"]]
    /\ UNCHANGED <<frames_collection, transcripts_collection, chat_collection, call, ret,
                   videos_db, frames_dir, tasks, chat_messages_db, running, next_uuid, llm>>

\* line 30, the call returning
TurnGenerate(i) ==
    /\ turns[i].pc = "generate"
    /\ LET branch == Branch(turns[i].context, turns[i].request.use_vision)
       IN  \E provider_ok \in BOOLEAN :
               LET response == generate_response(branch, provider_ok)
               IN  /\ (branch = "unconfigured" => provider_ok)
                   /\ turns' = [turns EXCEPT ![i] =
                          [@ EXCEPT !.branch = branch,
                                    !.provider = IF branch = "unconfigured" THEN "not called"
                                                 ELSE IF provider_ok THEN "ok" ELSE "error",
                                    !.response = IF response.raised THEN NoResponse
                                                 ELSE response,
                                    !.pc = IF response.raised THEN "failed" ELSE "store user",
                                    !.error = IF response.raised THEN "generation" ELSE None]]
    /\ UNCHANGED <<frames_collection, transcripts_collection, chat_collection, call, ret,
                   videos_db, frames_dir, tasks, chat_messages_db, running, next_uuid, llm>>

\* lines 36-53, up to the await of add_chat_message
TurnStoreUser(i) ==
    /\ turns[i].pc = "store user"
    /\ LET request == turns[i].request
           chat_message == ChatMessage(Uuid(next_uuid), request.video_id, "user",
                                       request.message, ContextFrameIds(turns[i].context))
       IN  /\ chat_messages_db' = AppendMessage(chat_messages_db, request.video_id, chat_message)
           /\ turns' = [turns EXCEPT ![i] = [@ EXCEPT !.message_id = chat_message.id,
                                                      !.pc = "add_chat_message"]]
    /\ next_uuid' = next_uuid + 1
    /\ UNCHANGED <<frames_collection, transcripts_collection, chat_collection, call, ret,
                   videos_db, frames_dir, tasks, running, llm>>

\* the message of the turn, as stored in chat_messages_db
StoredUserMessage(i) ==
    LET history == chat_messages_db[turns[i].request.video_id]
    IN  history[CHOOSE k \in DOMAIN history : history[k].id = turns[i].message_id]

\* line 53, add_chat_message running, and lines 55-87 after it
TurnAddAndStoreAssistant(i) ==
    /\ turns[i].pc = "add_chat_message"
    /\ \E add_fails \in BOOLEAN :
           /\ chat_collection' =
                  add_chat_message(chat_collection, StoredUserMessage(i), add_fails)
           /\ IF add_fails
              THEN /\ turns' = [turns EXCEPT ![i] = [@ EXCEPT !.pc = "failed",
                                                              !.error = "add_chat_message"]]
                   /\ UNCHANGED <<chat_messages_db, next_uuid>>
              ELSE LET request == turns[i].request
                       assistant_message ==
                           ChatMessage(Uuid(next_uuid), request.video_id, "assistant",
                                       turns[i].response.content,
                                       ContextFrameIds(turns[i].context))
                   IN  /\ chat_messages_db' = AppendMessage(chat_messages_db,
                                                            request.video_id, assistant_message)
                       /\ turns' = [turns EXCEPT ![i] =
                              [@ EXCEPT !.assistant_id = assistant_message.id, !.pc = "done"]]
                       /\ next_uuid' = next_uuid + 1
    /\ UNCHANGED <<frames_collection, transcripts_collection, call, ret,
                   videos_db, frames_dir, tasks, running, llm>>

NextTurns ==
    \/ TurnArrives
    \/ \E i \in DOMAIN turns :
           \/ TurnGetContext(i)
           \/ TurnGenerate(i)
           \/ TurnStoreUser(i)
           \/ TurnAddAndStoreAssistant(i)

SpecTurns == InitTurns /\ [][NextTurns]_vars

(***************************************************************************)
(* C14  Concurrent chat turns do not collide: however the turns on one     *)
(* video interleave, the messages stored get ids that differ from one      *)
(* another, the user message of every turn that got past add_chat_message  *)
(* is a record of its own in the chat collection, and every message a turn *)
(* stored is in the video's chat history; no write of a turn replaces or   *)
(* drops a write of another.                                               *)
(***************************************************************************)
TurnMessageIds(i) == {turns[i].message_id, turns[i].assistant_id} \ {None}

StoredMessageIds == UNION {TurnMessageIds(i) : i \in DOMAIN turns}

History(video_id) ==
    IF video_id \in DOMAIN chat_messages_db THEN chat_messages_db[video_id] ELSE <<>>

ConcurrentTurnsDoNotCollide ==
    /\ \A i, j \in DOMAIN turns : i # j => TurnMessageIds(i) \cap TurnMessageIds(j) = {}
    /\ \A i \in DOMAIN turns : turns[i].message_id # turns[i].assistant_id
                                   \/ turns[i].message_id = None
    /\ Len(History(SeedVideo.id)) = Cardinality(StoredMessageIds)
    /\ \A i \in DOMAIN turns :
           /\ turns[i].message_id # None =>
                  StoredMessage(turns[i].message_id, turns[i].request.video_id,
                                "user", turns[i].request.message)
           /\ turns[i].assistant_id # None =>
                  StoredMessage(turns[i].assistant_id, turns[i].request.video_id,
                                "assistant", turns[i].response.content)
           /\ turns[i].pc = "done" =>
                  /\ IndexedInChat(turns[i].message_id, turns[i].request.video_id)
                  /\ chat_collection[turns[i].message_id].metadata.role = "user"
                  /\ chat_collection[turns[i].message_id].document = turns[i].request.message

\* two completed turns whose steps were interleaved: the second request
\* stored its user message before the first stored its own
ConcurrentTurnsDoNotCollideWitness ==
    /\ Len(turns) >= 2
    /\ turns[1].pc = "done" /\ turns[2].pc = "done"
    /\ Len(History(SeedVideo.id)) = 4
    /\ History(SeedVideo.id)[1].id = turns[2].message_id
    /\ History(SeedVideo.id)[2].id = turns[1].message_id
    /\ History(SeedVideo.id)[3].id = turns[2].assistant_id

(***************************************************************************)
(* C15  Re-ingestion overwrites but does not prune, as claimed: after a    *)
(* video is ingested with a transcript of n chunks and again with one of   *)
(* m < n chunks, neither call raising, the transcripts collection holds    *)
(* the new content under the ids of chunks 0..m-1, still holds the old     *)
(* chunks m..n-1, and holds nothing of another video.                      *)
(***************************************************************************)
ChunkDocumentIs(video_id, i, chunk) ==
    /\ ChunkId(video_id, i) \in DOMAIN transcripts_collection
    /\ transcripts_collection[ChunkId(video_id, i)].document = chunk

ReingestionOverwritesNoPrune ==
    (/\ call.op = "ingest" /\ call.done = 2
     /\ call.script[1].fault = 0 /\ call.script[2].fault = 0
     /\ call.script[1].video_info.id = call.script[2].video_info.id
     /\ Len(TranscriptChunks(call.script[2].video_info))
            < Len(TranscriptChunks(call.script[1].video_info))) =>
        LET video_id == call.script[1].video_info.id
            old == TranscriptChunks(call.script[1].video_info)
            new == TranscriptChunks(call.script[2].video_info)
        IN  /\ \A i \in 1..Len(new) : ChunkDocumentIs(video_id, i - 1, new[i])
            /\ \A i \in (Len(new) + 1)..Len(old) : ChunkDocumentIs(video_id, i - 1, old[i])
            /\ \A id \in DOMAIN transcripts_collection :
                   transcripts_collection[id].metadata.video_id = video_id

(***************************************************************************)
(* C16  Top-K selection and order: get_context_for_chat asks both          *)
(* collections for 2 * max_frames records of the video, and the frames it  *)
(* returns are min(max_frames, n) frame records of the video, n the number *)
(* the index holds, none of them farther from the query than a frame of    *)
(* the video left out, each with relevance 1 - distance, in non-increasing *)
(* relevance.                                                              *)
(***************************************************************************)
QueriedWithK(results, coll, video_id, k) ==
    /\ Len(results.ids) = Min(k, Cardinality(Matching(coll, video_id)))
    /\ \A i \in DOMAIN results.ids : results.ids[i] \in Matching(coll, video_id)

TopKSelectionAndOrder ==
    ret.op = "get_context_for_chat" =>
        LET frames == ret.context.frames
            of_video == Matching(frames_collection, ret.video_id)
            returned == {frames[i].frame_id : i \in DOMAIN frames}
            d(id) == CosineDistance(encode(ret.query), frames_collection[id].embedding)
        IN  /\ QueriedWithK(ret.search.frames, frames_collection, ret.video_id,
                            2 * ret.max_frames)
            /\ QueriedWithK(ret.search.transcript, transcripts_collection, ret.video_id,
                            2 * ret.max_frames)
            /\ Len(frames) = Min(ret.max_frames, Cardinality(of_video))
            /\ Cardinality(returned) = Len(frames)
            /\ returned \subseteq of_video
            /\ \A i \in DOMAIN frames : frames[i].relevance_score = One - d(frames[i].frame_id)
            /\ \A x \in of_video \ returned : \A y \in returned : d(y) <= d(x)
            /\ \A i, j \in DOMAIN frames :
                   i < j => frames[i].relevance_score >= frames[j].relevance_score

\* a call that returns the nearest frame of the video and leaves out one
\* that the index found and that is strictly farther from the query
TopKSelectionAndOrderWitness ==
    /\ ret.op = "get_context_for_chat"
    /\ Len(ret.context.frames) = ret.max_frames
    /\ Len(ret.search.frames.ids) > ret.max_frames
    /\ \E k \in DOMAIN ret.search.frames.ids :
           /\ \A i \in DOMAIN ret.context.frames :
                  /\ ret.context.frames[i].frame_id # ret.search.frames.ids[k]
                  /\ ret.context.frames[i].relevance_score
                         > One - ret.search.frames.distances[k]

(***************************************************************************)
(* C17  READY implies searchable, as claimed: in every state in which the  *)
(* status stored in videos_db (the record get_video_info returns) is       *)
(* READY, every chunk of the video's non-empty transcript is in the        *)
(* transcripts collection; the stored status is not READY while            *)
(* add_video_content has yet to run or has raised.                         *)
(***************************************************************************)
ReadyImpliesSearchable ==
    \A video_id \in DOMAIN videos_db :
        videos_db[video_id].status = READY => ChunksIndexed(videos_db[video_id])

\* the same, read only when no task or chat turn holds the event loop, which
\* is when a request handler can run
ReadyImpliesSearchableWhenIdle ==
    running = "idle" => ReadyImpliesSearchable

(***************************************************************************)
(* C18  Status progression, as claimed: the status stored for a video      *)
(* moves only from UPLOADING to PROCESSING and from PROCESSING to READY or *)
(* ERROR; READY and ERROR are final, so no step takes a video from READY   *)
(* to ERROR.                                                               *)
(***************************************************************************)
Forward(from, to) ==
    \/ from = UPLOADING /\ to = PROCESSING
    \/ from = PROCESSING /\ to \in {READY, ERROR}

StatusProgressionStep ==
    \A video_id \in DOMAIN videos_db :
        /\ video_id \in DOMAIN videos_db'
        /\ \/ videos_db'[video_id].status = videos_db[video_id].status
           \/ Forward(videos_db[video_id].status, videos_db'[video_id].status)

StatusProgression == [][StatusProgressionStep]_vars
=============================================================================
